---- MODULE Spec2Model ----
(***************************************************************************)
(* A model of the numeric core of the renderfoot path tracer: the AABB     *)
(* slab test and box union (aabb.rs), the moving sphere (sphere.rs), the   *)
(* materials (materials.rs) and the pixel scrub helpers (utils.rs).        *)
(*                                                                         *)
(* f32 values are modelled as fixed-point numbers (an integer count of     *)
(* 1/Scale units) extended with the IEEE-754 specials the code relies on:  *)
(* NaN, +Inf, -Inf and the negative zero (which matters only as a divisor).*)
(* The program is a library of calls; the state is the call last made (op  *)
(* names the operation, args its arguments, ret its return value) and the  *)
(* thread's random number generator thread_rng.                            *)
(***************************************************************************)
EXTENDS Integers, Sequences, FiniteSets, TLC

VARIABLES op, args, ret, thread_rng

vars == <<op, args, ret, thread_rng>>

(***************************************************************************)
(* f32                                                                     *)
(***************************************************************************)
\* Fixed-point resolution of the finite values: 1.0 is Scale units.
Scale == 10 * 10

Num(n) == [k |-> "num", v |-> n]
NaN == [k |-> "nan", v |-> 0]
PInf == [k |-> "inf", v |-> 1]
NInf == [k |-> "inf", v |-> -1]
NegZero == [k |-> "negzero", v |-> 0]
Zero == Num(0)
One == Num(Scale)
\* An integer number of whole units.
Units(n) == Num(n * Scale)

IsNan(x) == x.k = "nan"
IsInf(x) == x.k = "inf"
IsFin(x) == x.k \in {"num", "negzero"}
Sgn(n) == IF n > 0 THEN 1 ELSE IF n < 0 THEN -1 ELSE 0
Abs(n) == IF n < 0 THEN -n ELSE n
\* Sign of a value, the negative zero counting as negative.
SignOf(x) == IF x.k = "negzero" THEN -1 ELSE IF x.v < 0 THEN -1 ELSE 1
Inf(s) == IF s < 0 THEN NInf ELSE PInf
\* n / d rounded to the nearest integer (d # 0), as f32 rounds to nearest.
RoundDiv(n, d) == Sgn(n) * Sgn(d) * ((2 * Abs(n) + Abs(d)) \div (2 * Abs(d)))

\* The IEEE comparisons: every comparison with a NaN is false.
FLt(x, y) ==
    /\ ~IsNan(x) /\ ~IsNan(y)
    /\ IF IsInf(x) /\ IsInf(y) THEN x.v < y.v
       ELSE IF IsInf(x) THEN x.v < 0
       ELSE IF IsInf(y) THEN y.v > 0
       ELSE x.v < y.v
FEq(x, y) ==
    /\ ~IsNan(x) /\ ~IsNan(y)
    /\ IF IsInf(x) \/ IsInf(y) THEN IsInf(x) /\ IsInf(y) /\ x.v = y.v
       ELSE x.v = y.v
FLe(x, y) == FLt(x, y) \/ FEq(x, y)
FGt(x, y) == FLt(y, x)

FNeg(x) ==
    IF IsNan(x) THEN NaN
    ELSE IF IsInf(x) THEN Inf(-x.v)
    ELSE IF x.k = "negzero" THEN Zero
    ELSE Num(-x.v)

FAdd(x, y) ==
    IF IsNan(x) \/ IsNan(y) THEN NaN
    ELSE IF IsInf(x) /\ IsInf(y) THEN (IF x.v = y.v THEN x ELSE NaN)
    ELSE IF IsInf(x) THEN x
    ELSE IF IsInf(y) THEN y
    ELSE Num(x.v + y.v)

FSub(x, y) == FAdd(x, FNeg(y))

FMul(x, y) ==
    IF IsNan(x) \/ IsNan(y) THEN NaN
    ELSE IF IsInf(x) \/ IsInf(y)
         THEN (IF x.v = 0 \/ y.v = 0 THEN NaN ELSE Inf(SignOf(x) * SignOf(y)))
    ELSE Num(RoundDiv(x.v * y.v, Scale))

FDiv(x, y) ==
    IF IsNan(x) \/ IsNan(y) THEN NaN
    ELSE IF IsInf(x) THEN (IF IsInf(y) THEN NaN ELSE Inf(SignOf(x) * SignOf(y)))
    ELSE IF IsInf(y) THEN Zero
    ELSE IF y.v = 0 THEN (IF x.v = 0 THEN NaN ELSE Inf(SignOf(x) * SignOf(y)))
    ELSE Num(RoundDiv(x.v * Scale, y.v))

\* f32::min and f32::max: when one argument is NaN the other is returned.
FMin(x, y) ==
    IF IsNan(x) THEN y
    ELSE IF IsNan(y) THEN x
    ELSE IF FLt(y, x) THEN y ELSE x
FMax(x, y) ==
    IF IsNan(x) THEN y
    ELSE IF IsNan(y) THEN x
    ELSE IF FLt(x, y) THEN y ELSE x

\* Largest r with r * r <= n, by bisection on lo..hi (lo * lo <= n < (hi+1)^2).
SqrtCap(n) == IF n > 46340 THEN 46340 ELSE n
RECURSIVE ISqrtIn(_, _, _)
ISqrtIn(n, lo, hi) ==
    IF lo >= hi THEN lo
    ELSE LET mid == (lo + hi + 1) \div 2
         IN  IF mid * mid <= n THEN ISqrtIn(n, mid, hi) ELSE ISqrtIn(n, lo, mid - 1)
\* f32::sqrt: NaN for a negative argument; a positive argument has a positive root.
FSqrt(x) ==
    IF IsNan(x) THEN NaN
    ELSE IF IsInf(x) THEN (IF x.v > 0 THEN PInf ELSE NaN)
    ELSE IF x.v < 0 THEN NaN
    ELSE IF x.v = 0 THEN Zero
    ELSE Num(ISqrtIn(x.v * Scale, 0, SqrtCap(x.v * Scale)))

(***************************************************************************)
(* Vector3                                                                 *)
(***************************************************************************)
Axes == 1..3
Vec(x, y, z) == <<x, y, z>>
VecU(x, y, z) == <<Units(x), Units(y), Units(z)>>
VZeros == <<Zero, Zero, Zero>>
VAdd(a, b) == <<FAdd(a[1], b[1]), FAdd(a[2], b[2]), FAdd(a[3], b[3])>>
VSub(a, b) == <<FSub(a[1], b[1]), FSub(a[2], b[2]), FSub(a[3], b[3])>>
VNeg(a) == <<FNeg(a[1]), FNeg(a[2]), FNeg(a[3])>>
VScale(s, a) == <<FMul(s, a[1]), FMul(s, a[2]), FMul(s, a[3])>>
VDivS(a, s) == <<FDiv(a[1], s), FDiv(a[2], s), FDiv(a[3], s)>>
ComponentMul(a, b) == <<FMul(a[1], b[1]), FMul(a[2], b[2]), FMul(a[3], b[3])>>
Dot(a, b) == FAdd(FAdd(FMul(a[1], b[1]), FMul(a[2], b[2])), FMul(a[3], b[3]))
\* zip_map with f32::min / f32::max, and the reductions max() / min().
ZipMin(a, b) == <<FMin(a[1], b[1]), FMin(a[2], b[2]), FMin(a[3], b[3])>>
ZipMax(a, b) == <<FMax(a[1], b[1]), FMax(a[2], b[2]), FMax(a[3], b[3])>>
VMaxOf(a) == FMax(FMax(a[1], a[2]), a[3])
VMinOf(a) == FMin(FMin(a[1], a[2]), a[3])

(***************************************************************************)
(* Ray                                                                     *)
(***************************************************************************)
\* The precomputed componentwise reciprocal of the direction: a zero
\* component gives +Inf, a negative zero gives -Inf.
InverseDirection(d) == <<FDiv(One, d[1]), FDiv(One, d[2]), FDiv(One, d[3])>>
RayNew(origin, direction, time) ==
    [origin |-> origin, direction |-> direction,
     inverse_direction |-> InverseDirection(direction), time |-> time]
PointAtParameter(ray, t) == VAdd(ray.origin, VScale(t, ray.direction))

(***************************************************************************)
(* AABB (aabb.rs)                                                          *)
(***************************************************************************)
AABBNew(minimum, maximum) == [minimum |-> minimum, maximum |-> maximum]

AABBHit(self, ray, position_min, position_max) ==
    LET t0 == ComponentMul(VSub(self.minimum, ray.origin), ray.inverse_direction)
        t1 == ComponentMul(VSub(self.maximum, ray.origin), ray.inverse_direction)
        tmin == ZipMin(t0, t1)
        tmax == ZipMax(t1, t0)
    IN  FLe(VMaxOf(tmin), VMinOf(tmax))

SurroundingBoxSwapped(self, other) ==
    LET small == ZipMin(self.minimum, other.minimum)
        big == ZipMax(self.maximum, other.minimum)
    IN  AABBNew(small, big)
SurroundingBoxSelfMin(self, other) ==
    LET small == self.minimum
        big == ZipMax(self.maximum, other.maximum)
    IN  AABBNew(small, big)
SurroundingBox(self, other) ==
    LET small == ZipMin(self.minimum, other.minimum)
        big == ZipMax(self.maximum, other.maximum)
    IN  AABBNew(small, big)

(***************************************************************************)
(* Inputs of the AABB calls                                                *)
(***************************************************************************)
\* Largest x coordinate of a box corner, in whole units.
MaxCoord == 1
\* Largest ray parameter of a search interval, in whole units.
MaxT == 3
CoordsX == 0..MaxCoord
CoordsYZ == {0, 1}
Corners == {VecU(x, y, z) : x \in CoordsX, y \in CoordsYZ, z \in CoordsYZ}
VLe(a, b) == \A i \in Axes : FLe(a[i], b[i])
VLt(a, b) == \A i \in Axes : FLt(a[i], b[i])
\* The AABB invariant: minimum <= maximum componentwise.
Boxes ==
    {b \in {AABBNew(lo, hi) : lo \in Corners, hi \in Corners} : VLe(b.minimum, b.maximum)}
\* Largest edge of a box handed to AABB::hit, in whole units.
MaxExtent == 2
\* Cubes of positive extent on every axis, as bounding_box gives for radius > 0.
SolidBoxes == {AABBNew(VecU(0, 0, 0), VecU(e, e, e)) : e \in 1..MaxExtent}
\* Direction components: -1, -0, +0, +1.
DirComps == {Units(-1), NegZero, Zero, Units(1)}
Directions ==
    {d \in {Vec(x, y, z) : x \in DirComps, y \in DirComps, z \in DirComps} :
        \E i \in Axes : d[i].v # 0}
OriginComps == (-1)..(MaxExtent + 1)
Origins == {VecU(x, y, z) : x \in OriginComps, y \in OriginComps, z \in OriginComps}
TMaxs == {Units(t) : t \in 1..MaxT}

(***************************************************************************)
(* The calls.  A call is made from the idle state and returns to it.       *)
(***************************************************************************)
Idle == op = "idle"

Init ==
    /\ op = "idle"
    /\ args = <<>>
    /\ ret = <<>>
    /\ thread_rng = 0

Return ==
    /\ ~Idle
    /\ op' = "idle"
    /\ args' = <<>>
    /\ ret' = <<>>
    /\ UNCHANGED thread_rng

CallSurroundingBox ==
    /\ Idle
    /\ \E a \in Boxes, b \in Boxes :
          /\ op' = "surrounding_box"
          /\ args' = [self |-> a, other |-> b]
          /\ ret' = SurroundingBox(a, b)
    /\ UNCHANGED thread_rng

\* A scene bound folded from three boxes, in the two groupings and with the
\* first pair in both orders.
CallFoldBoxes ==
    /\ Idle
    /\ \E a \in Boxes, b \in Boxes, c \in Boxes :
          /\ op' = "fold_boxes"
          /\ args' = [a |-> a, b |-> b, c |-> c]
          /\ ret' = [ab |-> SurroundingBox(a, b),
                     ba |-> SurroundingBox(b, a),
                     ab_c |-> SurroundingBox(SurroundingBox(a, b), c),
                     a_bc |-> SurroundingBox(a, SurroundingBox(b, c))]
    /\ UNCHANGED thread_rng

CallAABBHit ==
    /\ Idle
    /\ \E b \in SolidBoxes, o \in Origins, d \in Directions, tmax \in {Units(1), Units(MaxT)} :
          /\ op' = "aabb_hit"
          /\ args' = [self |-> b, ray |-> RayNew(o, d, Zero),
                      position_min |-> Zero, position_max |-> tmax]
          /\ ret' = AABBHit(b, RayNew(o, d, Zero), Zero, tmax)
    /\ UNCHANGED thread_rng

NextAABB == CallSurroundingBox \/ CallFoldBoxes \/ CallAABBHit \/ Return
SpecAABB == Init /\ [][NextAABB]_vars


(***************************************************************************)
(* Properties of the AABB calls                                            *)
(***************************************************************************)
Contains(box, p) == \A i \in Axes : FLe(box.minimum[i], p[i]) /\ FLe(p[i], box.maximum[i])
BoxWithin(inner, outer) == VLe(outer.minimum, inner.minimum) /\ VLe(inner.maximum, outer.maximum)
IntMin(m, n) == IF m <= n THEN m ELSE n
IntMax(m, n) == IF m >= n THEN m ELSE n

\* C2: A.surrounding_box(B) contains every point of A and of B, its corners
\* are the componentwise min of the minimums and max of the maximums, and it
\* is the tightest such box: every box that contains A and B contains it.
C2_SurroundingBoxTightest ==
    op = "surrounding_box" =>
        LET a == args.self
            b == args.other
        IN  /\ \A p \in Origins : (Contains(a, p) \/ Contains(b, p)) => Contains(ret, p)
            /\ \A i \in Axes :
                  /\ ret.minimum[i] = Num(IntMin(a.minimum[i].v, b.minimum[i].v))
                  /\ ret.maximum[i] = Num(IntMax(a.maximum[i].v, b.maximum[i].v))
            /\ ret \in Boxes
            /\ \A x \in Boxes : (BoxWithin(a, x) /\ BoxWithin(b, x)) => BoxWithin(ret, x)

\* C2 witness: a union of two boxes neither of which contains the other.
C2_Witness ==
    /\ op = "surrounding_box"
    /\ ~BoxWithin(args.self, args.other)
    /\ ~BoxWithin(args.other, args.self)
    /\ ret # args.self
    /\ ret # args.other

\* C10: surrounding_box is commutative and associative.
C10_CommutativeAssociative ==
    op = "fold_boxes" =>
        /\ ret.ab = ret.ba
        /\ ret.ab_c = ret.a_bc

\* C10 witness: three boxes, none inside another, whose fold is a fourth box
\* larger than the union of the first two.
C10_Witness ==
    /\ op = "fold_boxes"
    /\ ~BoxWithin(args.a, args.b) /\ ~BoxWithin(args.b, args.a)
    /\ ~BoxWithin(args.c, ret.ab)
    /\ ret.ab_c \notin {args.a, args.b, args.c, ret.ab}

\* The exact slab intersection, on whole-unit coordinates: the ray meets the
\* closed box at an integer parameter t of the search interval.
DirInt(c) == IF c.k = "negzero" THEN 0 ELSE c.v \div Scale
MeetsBox(box, ray, position_min, position_max) ==
    \E t \in 0..MaxT :
        /\ position_min.v <= t * Scale
        /\ t * Scale <= position_max.v
        /\ \A i \in Axes :
              LET p == ray.origin[i].v + t * DirInt(ray.direction[i]) * Scale
              IN  box.minimum[i].v <= p /\ p <= box.maximum[i].v
AxisAligned(ray) == \E i \in Axes : ray.direction[i].v = 0
OnSlabPlane(box, ray) ==
    \E i \in Axes :
        /\ ray.direction[i].v = 0
        /\ ray.origin[i] \in {box.minimum[i], box.maximum[i]}

\* C4: AABB::hit never rejects an axis-aligned ray that meets the closed box
\* inside the search interval, a ray starting on a slab plane included.
C4_NoFalseRejection ==
    (/\ op = "aabb_hit"
     /\ AxisAligned(args.ray)
     /\ MeetsBox(args.self, args.ray, args.position_min, args.position_max))
        => ret = TRUE

\* The part of C4 the code does satisfy: off the slab planes nothing is rejected.
AABBHitOffPlane ==
    (/\ op = "aabb_hit"
     /\ ~OnSlabPlane(args.self, args.ray)
     /\ MeetsBox(args.self, args.ray, args.position_min, args.position_max))
        => ret = TRUE
AABBHitOffPlaneWitness ==
    /\ op = "aabb_hit"
    /\ AxisAligned(args.ray)
    /\ ~OnSlabPlane(args.self, args.ray)
    /\ MeetsBox(args.self, args.ray, args.position_min, args.position_max)
    /\ ret = TRUE

(***************************************************************************)
(* Sphere (sphere.rs)                                                      *)
(***************************************************************************)
None == [some |-> FALSE]
Some(x) == [some |-> TRUE, value |-> x]

SphereNew(start_center, end_center, radius, material, start_time, end_time) ==
    [start_center |-> start_center, end_center |-> end_center, radius |-> radius,
     material |-> material, start_time |-> start_time, end_time |-> end_time]

Center(self, time) ==
    VAdd(self.start_center,
         VScale(FDiv(FSub(time, self.start_time), FSub(self.end_time, self.start_time)),
                VSub(self.end_center, self.start_center)))

\* The coefficients of the quadratic in t and its discriminant.
Quadratic(self, ray) ==
    LET sphere_center == VSub(ray.origin, Center(self, ray.time))
        a == Dot(ray.direction, ray.direction)
        b == Dot(sphere_center, ray.direction)
        c == FSub(Dot(sphere_center, sphere_center), FMul(self.radius, self.radius))
    IN  [a |-> a, b |-> b, c |-> c, discriminant |-> FSub(FMul(b, b), FMul(a, c))]
FirstRoot(q) == FDiv(FSub(FNeg(q.b), FSqrt(q.discriminant)), q.a)
SecondRoot(q) == FDiv(FAdd(FNeg(q.b), FSqrt(q.discriminant)), q.a)

\* The record of a hit at parameter root.  The texture coordinates (u, v) of
\* get_sphere_uv are trigonometric functions of the normal and are left out.
SphereHitRecord(self, ray, root) ==
    LET point == PointAtParameter(ray, root)
        normal == VDivS(VSub(point, Center(self, ray.time)), self.radius)
    IN  [t |-> root, point |-> point, geometric_normal |-> normal,
         shading_normal |-> normal, material |-> self.material]

\* The first root of the sequence lying strictly inside the interval.
RECURSIVE FirstRootInside(_, _, _, _, _)
FirstRootInside(self, ray, roots, position_min, position_max) ==
    IF roots = <<>> THEN None
    ELSE IF FGt(Head(roots), position_min) /\ FLt(Head(roots), position_max)
         THEN Some(SphereHitRecord(self, ray, Head(roots)))
         ELSE FirstRootInside(self, ray, Tail(roots), position_min, position_max)

SphereHitFarFirst(self, ray, position_min, position_max) ==
    LET q == Quadratic(self, ray)
    IN  IF FGt(q.discriminant, Zero)
        THEN FirstRootInside(self, ray, <<SecondRoot(q), FirstRoot(q)>>,
                             position_min, position_max)
        ELSE None
SphereHit(self, ray, position_min, position_max) ==
    LET q == Quadratic(self, ray)
    IN  IF FGt(q.discriminant, Zero)
        THEN FirstRootInside(self, ray, <<FirstRoot(q), SecondRoot(q)>>,
                             position_min, position_max)
        ELSE None

SphereBoundingBoxStart(self, t0, t1) ==
    LET radius == Vec(self.radius, self.radius, self.radius)
        min0 == VSub(Center(self, t0), radius)
        max0 == VAdd(Center(self, t0), radius)
        small == AABBNew(min0, max0)
    IN  Some(SurroundingBox(small, small))
SphereBoundingBox(self, t0, t1) ==
    LET radius == Vec(self.radius, self.radius, self.radius)
        min0 == VSub(Center(self, t0), radius)
        max0 == VAdd(Center(self, t0), radius)
        min1 == VSub(Center(self, t1), radius)
        max1 == VAdd(Center(self, t1), radius)
        small == AABBNew(min0, max0)
        big == AABBNew(min1, max1)
    IN  Some(SurroundingBox(small, big))

(***************************************************************************)
(* Inputs of the sphere calls                                              *)
(***************************************************************************)
\* Largest sphere radius, in whole units.
MaxRadius == 2
\* Largest end_time of a sphere's motion, in whole units.
MaxTime == 2
SphereCenters == {VecU(0, 0, -3), VecU(0, 1, -3), VecU(1, 0, -2)}
Radii == {Units(r) : r \in 1..MaxRadius}
\* Spheres moving over the shutter interval [0, 1].
ShutterSpheres ==
    {SphereNew(sc, ec, r, "material", Zero, One) :
        sc \in SphereCenters, ec \in SphereCenters, r \in Radii}
RayOrigins == {VecU(0, 0, 0), VecU(0, 1, 0), VecU(0, 0, -3)}
RayDirections == {VecU(0, 0, -1), VecU(0, 0, -2), VecU(0, 1, -1), VecU(0, 0, 1)}
\* Times in quarter units.
Quarter == Scale \div 4
RayTimes == {Zero, Num(2 * Quarter), One}
PositionMins == {Zero, Num(1)}
PositionMaxs == TMaxs \cup {PInf}
\* Spheres whose motion starts and ends at different times, in either order.
TimedSpheres ==
    {s \in {SphereNew(sc, ec, r, "material", Units(st), Units(et)) :
                sc \in SphereCenters, ec \in SphereCenters, r \in Radii,
                st \in {0, 1}, et \in 0..MaxTime} :
        s.start_time # s.end_time}
BoxTimes == {Units(t) : t \in 0..MaxTime}
\* Every quarter of a unit between 0 and MaxTime.
TimeGrid == {Num(n * Quarter) : n \in 0..(4 * MaxTime)}

CallSphereHit ==
    /\ Idle
    /\ \E s \in ShutterSpheres, o \in RayOrigins, d \in RayDirections, time \in RayTimes,
          tmin \in PositionMins, tmax \in PositionMaxs :
          /\ op' = "sphere_hit"
          /\ args' = [self |-> s, ray |-> RayNew(o, d, time),
                      position_min |-> tmin, position_max |-> tmax]
          /\ ret' = SphereHit(s, RayNew(o, d, time), tmin, tmax)
    /\ UNCHANGED thread_rng

CallSphereBoundingBox ==
    /\ Idle
    /\ \E s \in TimedSpheres, t0 \in BoxTimes, t1 \in BoxTimes :
          /\ op' = "sphere_bounding_box"
          /\ args' = [self |-> s, t0 |-> t0, t1 |-> t1]
          /\ ret' = SphereBoundingBox(s, t0, t1)
    /\ UNCHANGED thread_rng

NextSphere == CallSphereHit \/ CallSphereBoundingBox \/ Return
SpecSphere == Init /\ [][NextSphere]_vars

(***************************************************************************)
(* Properties of the sphere calls                                          *)
(***************************************************************************)
StrictlyInside(t, position_min, position_max) == FLt(position_min, t) /\ FLt(t, position_max)

Between(t, t0, t1) == (FLe(t0, t) /\ FLe(t, t1)) \/ (FLe(t1, t) /\ FLe(t, t0))
SphereBoxAt(self, t) ==
    LET radius == Vec(self.radius, self.radius, self.radius)
    IN  AABBNew(VSub(Center(self, t), radius), VAdd(Center(self, t), radius))
C3_SweptBoundConservative ==
    op = "sphere_bounding_box" =>
        /\ ret.some
        /\ \A t \in TimeGrid :
              Between(t, args.t0, args.t1) => BoxWithin(SphereBoxAt(args.self, t), ret.value)

\* C3 witness: a sphere that moves between two distinct times t0 # t1.
C3_Witness ==
    /\ op = "sphere_bounding_box"
    /\ args.t0 # args.t1
    /\ args.self.start_center # args.self.end_center
    /\ Center(args.self, args.t0) # Center(args.self, args.t1)
    /\ \E t \in TimeGrid :
          /\ Between(t, args.t0, args.t1)
          /\ t \notin {args.t0, args.t1}
          /\ Center(args.self, t) \notin {Center(args.self, args.t0), Center(args.self, args.t1)}
    /\ ret.some

(***************************************************************************)
(* Random numbers                                                          *)
(*                                                                         *)
(* A generator is a position in a periodic stream of uniform draws from    *)
(* [0, 1).  rng is the generator a scatter call receives as its argument;  *)
(* thread_rng (a variable of the model) is the generator of the thread,    *)
(* which rand::random() draws from.                                        *)
(***************************************************************************)
\* Period of the stream of draws.
RngPeriod == 4
RngStates == 0..(RngPeriod - 1)
Uniform(n) == Num((n * 37 + 2) % Scale)
Advance(n, draws) == (n + draws) % RngPeriod
\* A point strictly inside the unit sphere, from three draws.
PickSpherePoint(rng) ==
    [point |-> <<FSub(Uniform(rng), Num(Scale \div 2)),
                 FSub(Uniform(Advance(rng, 1)), Num(Scale \div 2)),
                 FSub(Uniform(Advance(rng, 2)), Num(Scale \div 2))>>,
     rng |-> Advance(rng, 3)]

(***************************************************************************)
(* Textures: a pure function from (u, v, point) to a colour                *)
(***************************************************************************)
ConstantTexture(color) == [kind |-> "constant", odd |-> color, even |-> color]
CheckerTexture(odd, even) == [kind |-> "checker", odd |-> odd, even |-> even]
TextureValue(texture, u, v, p) ==
    IF texture.kind = "constant" THEN texture.odd
    ELSE IF FLt(u, Num(Scale \div 2)) THEN texture.odd ELSE texture.even

(***************************************************************************)
(* Materials (materials.rs)                                                *)
(***************************************************************************)
Norm(v) == FSqrt(Dot(v, v))
Normalize(v) == VDivS(v, Norm(v))
\* The cosine density built on the shading normal.
CosinePDF(normal) == [kind |-> "CosinePDF", w |-> normal]
ScatterRecordNew(specular_ray, attenuation, pdf, specular) ==
    [specular_ray |-> specular_ray, attenuation |-> attenuation,
     pdf |-> pdf, specular |-> specular]
\* What a scatter call leaves behind: the returned record and the two generators.
Outcome(record, rng, global) == [record |-> record, rng |-> rng, thread_rng |-> global]

Reflect(v, n) == VSub(v, VScale(FMul(Units(2), Dot(v, n)), n))

Refract(v, n, refractive_index) ==
    LET uv == Normalize(v)
        direction == Dot(uv, n)
        discriminant ==
            FSub(One, FMul(FMul(refractive_index, refractive_index),
                           FSub(One, FMul(direction, direction))))
    IN  IF FGt(discriminant, Zero)
        THEN Some(VSub(VScale(refractive_index, VSub(uv, VScale(direction, n))),
                       VScale(FSqrt(discriminant), n)))
        ELSE None

\* powf(5.0)
Powf5(x) == FMul(FMul(FMul(FMul(x, x), x), x), x)
SchlickNoSquare(cosine, reference_index) ==
    LET r0 == FDiv(FSub(One, reference_index), FAdd(One, reference_index))
    IN  FAdd(r0, FMul(FSub(One, r0), Powf5(FSub(One, cosine))))
Schlick(cosine, reference_index) ==
    LET r00 == FDiv(FSub(One, reference_index), FAdd(One, reference_index))
        r0 == FMul(r00, r00)
    IN  FAdd(r0, FMul(FSub(One, r0), Powf5(FSub(One, cosine))))

\* The trait's defaults and the Empty material.
DefaultEmitted(ray, hit) == VZeros
EmptyScatter(self, ray, hit, rng, global) == Outcome(None, rng, global)

DiffuseScatter(self, ray, record, rng, global) ==
    LET scattered == RayNew(record.point, Normalize(ray.direction), ray.time)
        attenuation == TextureValue(self.albedo, record.u, record.v, record.point)
        pdf == CosinePDF(record.shading_normal)
    IN  Outcome(Some(ScatterRecordNew(scattered, attenuation, pdf, FALSE)), rng, global)

Pi == Num((314 * Scale) \div 100)
DiffuseScatteringPdf(self, ray, record, scattered) ==
    LET cosine == FMax(Dot(record.shading_normal, Normalize(scattered.direction)), Zero)
    IN  FDiv(cosine, Pi)

ReflectiveScatterDiscard(self, ray, record, rng, global) ==
    LET reflected == Reflect(Normalize(ray.direction), record.shading_normal)
        sample == PickSpherePoint(rng)
        specular_ray == RayNew(record.point,
                               VAdd(reflected, VScale(self.fuzz, sample.point)),
                               ray.time)
        pdf == CosinePDF(record.shading_normal)
    IN  IF FGt(Dot(specular_ray.direction, record.shading_normal), Zero)
        THEN Outcome(Some(ScatterRecordNew(specular_ray, self.albedo, pdf, TRUE)),
                     sample.rng, global)
        ELSE Outcome(None, sample.rng, global)
ReflectiveScatter(self, ray, record, rng, global) ==
    LET reflected == Reflect(Normalize(ray.direction), record.shading_normal)
        sample == PickSpherePoint(rng)
        specular_ray == RayNew(record.point,
                               VAdd(reflected, VScale(self.fuzz, sample.point)),
                               ray.time)
        pdf == CosinePDF(record.shading_normal)
    IN  Outcome(Some(ScatterRecordNew(specular_ray, self.albedo, pdf, TRUE)),
                sample.rng, global)

RefractiveChoiceUnforced(self, ray, record) ==
    LET reflected == Reflect(Normalize(ray.direction), record.shading_normal)
        incident == Dot(ray.direction, record.shading_normal)
        entering == ~FGt(incident, Zero)
        outward_normal ==
            IF entering THEN record.shading_normal ELSE VNeg(record.shading_normal)
        refractive_index ==
            IF entering THEN FDiv(One, self.refractive_index) ELSE self.refractive_index
        cosine ==
            IF entering
            THEN FDiv(FNeg(Dot(ray.direction, record.shading_normal)), Norm(ray.direction))
            ELSE FDiv(FMul(self.refractive_index,
                           Dot(ray.direction, record.shading_normal)),
                      Norm(ray.direction))
        refracted == Refract(ray.direction, outward_normal, refractive_index)
        reflect_probability == Schlick(cosine, self.refractive_index)
    IN  [reflected |-> reflected, refracted |-> refracted,
         reflect_probability |-> reflect_probability]

\* The reflect probability and the two candidate directions of Refractive.
RefractiveChoice(self, ray, record) ==
    LET reflected == Reflect(Normalize(ray.direction), record.shading_normal)
        incident == Dot(ray.direction, record.shading_normal)
        entering == ~FGt(incident, Zero)
        outward_normal ==
            IF entering THEN record.shading_normal ELSE VNeg(record.shading_normal)
        refractive_index ==
            IF entering THEN FDiv(One, self.refractive_index) ELSE self.refractive_index
        cosine ==
            IF entering
            THEN FDiv(FNeg(Dot(ray.direction, record.shading_normal)), Norm(ray.direction))
            ELSE FDiv(FMul(self.refractive_index,
                           Dot(ray.direction, record.shading_normal)),
                      Norm(ray.direction))
        refracted == Refract(ray.direction, outward_normal, refractive_index)
        reflect_probability ==
            IF refracted.some THEN Schlick(cosine, self.refractive_index) ELSE One
    IN  [reflected |-> reflected, refracted |-> refracted,
         reflect_probability |-> reflect_probability]

\* refracted.unwrap() panics on None.
Panic == [panic |-> TRUE]
RefractiveScatter(self, ray, record, rng, global) ==
    LET c == RefractiveChoice(self, ray, record)
        attenuation == Vec(One, One, One)
        pdf == CosinePDF(record.shading_normal)
    IN  IF FLt(Uniform(global), c.reflect_probability)
        THEN Outcome(Some(ScatterRecordNew(RayNew(record.point, c.reflected, ray.time),
                                           attenuation, pdf, TRUE)),
                     rng, Advance(global, 1))
        ELSE IF c.refracted.some
        THEN Outcome(Some(ScatterRecordNew(RayNew(record.point, c.refracted.value, ray.time),
                                           attenuation, pdf, TRUE)),
                     rng, Advance(global, 1))
        ELSE Outcome(Panic, rng, Advance(global, 1))

LightScatter(self, ray, record, rng, global) == Outcome(None, rng, global)
LightEmittedBackFace(self, ray, hit) ==
    IF FGt(Dot(hit.shading_normal, ray.direction), Zero)
    THEN TextureValue(self.emit, hit.u, hit.v, hit.point)
    ELSE VZeros
LightEmitted(self, ray, hit) ==
    IF FLt(Dot(hit.shading_normal, ray.direction), Zero)
    THEN TextureValue(self.emit, hit.u, hit.v, hit.point)
    ELSE VZeros

IsotropicScatter(self, ray, record, rng, global) ==
    LET sample == PickSpherePoint(rng)
        scattered == RayNew(record.point, sample.point, ray.time)
        attenuation == TextureValue(self.albedo, record.u, record.v, record.point)
        pdf == CosinePDF(record.shading_normal)
    IN  Outcome(Some(ScatterRecordNew(scattered, attenuation, pdf, TRUE)),
                sample.rng, global)

\* Dynamic dispatch over the material variants.
Scatter(material, ray, record, rng, global) ==
    CASE material.variant = "Empty" -> EmptyScatter(material, ray, record, rng, global)
      [] material.variant = "Diffuse" -> DiffuseScatter(material, ray, record, rng, global)
      [] material.variant = "Reflective" -> ReflectiveScatter(material, ray, record, rng, global)
      [] material.variant = "Refractive" -> RefractiveScatter(material, ray, record, rng, global)
      [] material.variant = "Light" -> LightScatter(material, ray, record, rng, global)
      [] material.variant = "Isotropic" -> IsotropicScatter(material, ray, record, rng, global)
Emitted(material, ray, hit) ==
    IF material.variant = "Light" THEN LightEmitted(material, ray, hit)
    ELSE DefaultEmitted(ray, hit)

(***************************************************************************)
(* Pixel scrub helpers (utils.rs)                                          *)
(***************************************************************************)
ClampNoFloor(n) == FMin(n, Units(255))
Clamp(n) == FMax(FMin(n, Units(255)), Zero)

DeNanTwoChannels(color) ==
    <<IF IsNan(color[1]) THEN Zero ELSE color[1],
      IF IsNan(color[2]) THEN Zero ELSE color[2],
      color[3]>>
DeNan(color) ==
    <<IF IsNan(color[1]) THEN Zero ELSE color[1],
      IF IsNan(color[2]) THEN Zero ELSE color[2],
      IF IsNan(color[3]) THEN Zero ELSE color[3]>>

\* The scrub step at the pixel boundary: NaNs scrubbed, then each channel clamped.
Scrub(color) ==
    LET c == DeNan(color)
    IN  <<Clamp(c[1]), Clamp(c[2]), Clamp(c[3])>>

(***************************************************************************)
(* Inputs of the material and pixel calls                                  *)
(***************************************************************************)
Half == Num(Scale \div 2)
White == Vec(One, One, One)
Grey == Vec(Half, Half, Half)
Warm == VecU(4, 2, 1)
Textures == {ConstantTexture(White), CheckerTexture(Warm, Grey)}
RefractiveIndices == {Num(130), Num(150), Num(240)}
Materials ==
    {[variant |-> "Empty"]}
    \cup {[variant |-> "Diffuse", albedo |-> t] : t \in Textures}
    \cup {[variant |-> "Reflective", albedo |-> Grey, fuzz |-> f] : f \in {Zero, Half, One}}
    \cup {[variant |-> "Refractive", refractive_index |-> n] : n \in {Num(150), Num(240)}}
    \cup {[variant |-> "Light", emit |-> t] : t \in Textures}
    \cup {[variant |-> "Isotropic", albedo |-> t] : t \in Textures}
\* Incoming rays towards, along and away from the surface y = 0.
IncomingRays ==
    {RayNew(VecU(0, 2, 0), d, Zero) :
        d \in {VecU(0, -1, 0), VecU(1, -1, 0), VecU(2, -1, 0),
               VecU(1, 0, 0), VecU(0, 1, 0), VecU(1, 1, 0)}}
HitRecordNew(t, u, v, point, geometric_normal, shading_normal, material) ==
    [t |-> t, u |-> u, v |-> v, point |-> point, geometric_normal |-> geometric_normal,
     shading_normal |-> shading_normal, material |-> material]
HitRecords(material) ==
    {HitRecordNew(One, u, Half, VecU(0, 0, 0), n, n, material) :
        u \in {Num(Scale \div 4), Num(3 * (Scale \div 4))},
        n \in {VecU(0, 1, 0), VecU(0, -1, 0)}}
Cosines == {Num(n * (Scale \div 4)) : n \in 0..4}
\* Colour channels as ratios: 0/0 is NaN, x/0 is an infinity.
Ratios == {FDiv(n, d) : n \in {Units(-1), Zero, One, Units(300)}, d \in {Zero, One, Units(2)}}
Colors == {Vec(r, g, b) : r \in Ratios, g \in Ratios, b \in Ratios}

CallScatter ==
    /\ Idle
    /\ \E m \in Materials, ray \in IncomingRays, rng \in RngStates :
          \E record \in HitRecords(m) :
              LET out == Scatter(m, ray, record, rng, thread_rng)
              IN  /\ op' = "scatter"
                  /\ args' = [material |-> m, ray |-> ray, record |-> record, rng |-> rng]
                  /\ ret' = [record |-> out.record, rng |-> out.rng]
                  /\ thread_rng' = out.thread_rng

CallEmitted ==
    /\ Idle
    /\ \E m \in Materials, ray \in IncomingRays :
          \E hit \in HitRecords(m) :
              /\ op' = "emitted"
              /\ args' = [material |-> m, ray |-> ray, hit |-> hit]
              /\ ret' = Emitted(m, ray, hit)
    /\ UNCHANGED thread_rng

CallSchlick ==
    /\ Idle
    /\ \E cosine \in Cosines, n \in RefractiveIndices :
          /\ op' = "schlick"
          /\ args' = [cosine |-> cosine, reference_index |-> n]
          /\ ret' = Schlick(cosine, n)
    /\ UNCHANGED thread_rng

\* Index ratios handed to refract: entering (1 / n) and leaving (n) the medium.
IndexRatios ==
    {FDiv(One, n) : n \in {Num(150), Num(240)}} \cup {One, Num(150), Num(240)}
CallRefract ==
    /\ Idle
    /\ \E ray \in IncomingRays, n \in {VecU(0, 1, 0), VecU(0, -1, 0)}, ratio \in IndexRatios :
          /\ op' = "refract"
          /\ args' = [v |-> ray.direction, n |-> n, refractive_index |-> ratio]
          /\ ret' = Refract(ray.direction, n, ratio)
    /\ UNCHANGED thread_rng

NextMaterial == CallScatter \/ CallEmitted \/ CallSchlick \/ CallRefract \/ Return
SpecMaterial == Init /\ [][NextMaterial]_vars

CallDeNan ==
    /\ Idle
    /\ \E color \in Colors :
          /\ op' = "de_nan"
          /\ args' = color
          /\ ret' = DeNan(color)
    /\ UNCHANGED thread_rng

CallScrub ==
    /\ Idle
    /\ \E color \in Colors :
          /\ op' = "scrub"
          /\ args' = color
          /\ ret' = Scrub(color)
    /\ UNCHANGED thread_rng

NextPixel == CallDeNan \/ CallScrub \/ Return
SpecPixel == Init /\ [][NextPixel]_vars

Next == NextAABB \/ NextSphere \/ NextMaterial \/ NextPixel
Spec == Init /\ [][Next]_vars

(***************************************************************************)
(* Properties of the material calls                                        *)
(***************************************************************************)
\* The exact sign of a dot product of vectors of whole units.
DotInt(a, b) == a[1].v * b[1].v + a[2].v * b[2].v + a[3].v * b[3].v

\* C5: Light never scatters, and it emits its texture value exactly on the
\* side where dot(shading_normal, ray.direction) < 0, the zero vector otherwise.
C5_LightOneSided ==
    /\ (op = "scatter" /\ args.material.variant = "Light") => ret.record = None
    /\ (op = "emitted" /\ args.material.variant = "Light") =>
          LET facing == DotInt(args.hit.shading_normal, args.ray.direction) < 0
              value == TextureValue(args.material.emit, args.hit.u, args.hit.v, args.hit.point)
          IN  /\ facing => ret = value
              /\ ~facing => ret = VZeros
              /\ (ret = value) <=> facing

\* C5 witness: a light hit on its front face, emitting a non-zero colour.
C5_Witness ==
    /\ op = "emitted"
    /\ args.material.variant = "Light"
    /\ DotInt(args.hit.shading_normal, args.ray.direction) < 0
    /\ ret # VZeros
    /\ ret = Warm

Approx(x, y) == IsFin(x) /\ IsFin(y) /\ Abs(x.v - y.v) <= 2
FourHundredths == Num(4 * (Scale \div 100))

\* C9: schlick(0, 1.5) is approximately 0.04.
C9_SchlickAtZeroCosine ==
    (op = "schlick" /\ args.cosine = Zero /\ args.reference_index = Num(150))
        => Approx(ret, FourHundredths)

\* C9 as amended: 0.04 is r0, the value at cosine = 1; at cosine = 0 the
\* value is 1.
C9_SchlickAtNormalIncidence ==
    (op = "schlick" /\ args.reference_index = Num(150)) =>
        /\ args.cosine = One => Approx(ret, FourHundredths)
        /\ args.cosine = Zero => Approx(ret, One)

C9_Witness ==
    /\ op = "schlick"
    /\ args.cosine = One
    /\ args.reference_index = Num(150)
    /\ ret = FourHundredths

(***************************************************************************)
(* Properties of the pixel calls                                           *)
(***************************************************************************)
\* C6: de_nan zeroes exactly the NaN channels and leaves the others unchanged.
C6_DeNanScrubsNaN ==
    op = "de_nan" =>
        \A i \in Axes :
            /\ IsNan(args[i]) => ret[i] = Zero
            /\ ~IsNan(args[i]) => ret[i] = args[i]
            /\ ~IsNan(ret[i])

\* C6 witness: a colour with a NaN channel (0/0) next to a finite non-zero one.
C6_Witness ==
    /\ op = "de_nan"
    /\ \E i \in Axes : args[i] = FDiv(Zero, Zero) /\ ret[i] = Zero
    /\ \E i \in Axes : IsFin(args[i]) /\ args[i] # Zero /\ ret[i] = args[i]

\* C7: a NaN, +Inf or -Inf channel comes out of the scrub step as 0.
C7_CorruptionZeroed ==
    op = "scrub" =>
        \A i \in Axes : (IsNan(args[i]) \/ IsInf(args[i])) => ret[i] = Zero

\* C7 as amended: NaN and -Inf come out as 0, +Inf as 255, and no channel
\* leaves the scrub step as NaN, as an infinity or outside [0, 255].
C7_CorruptionClamped ==
    op = "scrub" =>
        \A i \in Axes :
            /\ (IsNan(args[i]) \/ args[i] = NInf) => ret[i] = Zero
            /\ args[i] = PInf => ret[i] = Units(255)
            /\ IsFin(ret[i]) /\ 0 <= ret[i].v /\ ret[i].v <= 255 * Scale

C7_Witness ==
    /\ op = "scrub"
    /\ args = Vec(NaN, PInf, NInf)
    /\ ret = Vec(Zero, Units(255), Zero)


(***************************************************************************)
(* Properties of the scatter calls                                         *)
(***************************************************************************)
\* The discriminant of Snell's law: 1 - ratio^2 (1 - cos^2), cos = normalize(v) . n.
SnellDiscriminant(v, n, ratio) ==
    LET cos == Dot(Normalize(v), n)
    IN  FSub(One, FMul(FMul(ratio, ratio), FSub(One, FMul(cos, cos))))
Panicked(outcome) == "panic" \in DOMAIN outcome

\* C11: refract returns None exactly when its discriminant is <= 0, and
\* Refractive::scatter never fails: it always returns a specular record; when
\* there is no refraction the reflect probability is 1 and the reflected ray
\* is returned, so the refracted direction is unwrapped only when it exists.
C11_RefractiveNeverFails ==
    /\ op = "refract" =>
          (ret = None <=> FLe(SnellDiscriminant(args.v, args.n, args.refractive_index), Zero))
    /\ (op = "scatter" /\ args.material.variant = "Refractive") =>
          /\ ~Panicked(ret.record)
          /\ ret.record.some
          /\ ret.record.value.specular
          /\ LET c == RefractiveChoice(args.material, args.ray, args.record)
                 direction == ret.record.value.specular_ray.direction
             IN  /\ ~c.refracted.some =>
                       /\ c.reflect_probability = One
                       /\ direction = c.reflected
                 /\ direction # c.reflected => (c.refracted.some /\ direction = c.refracted.value)

\* C11 witness: total internal reflection (a ray leaving the medium at 45
\* degrees), answered with the reflected ray.
C11_Witness ==
    /\ op = "scatter"
    /\ args.material.variant = "Refractive"
    /\ ~RefractiveChoice(args.material, args.ray, args.record).refracted.some
    /\ ~Panicked(ret.record)
    /\ ret.record.some
    /\ ret.record.value.specular_ray.direction =
           RefractiveChoice(args.material, args.ray, args.record).reflected

\* A refracted ray is also returned in some call.
RefractedReturned ==
    /\ op = "scatter"
    /\ args.material.variant = "Refractive"
    /\ RefractiveChoice(args.material, args.ray, args.record).refracted.some
    /\ ret.record.value.specular_ray.direction =
           RefractiveChoice(args.material, args.ray, args.record).refracted.value
    /\ ret.record.value.specular_ray.direction #
           RefractiveChoice(args.material, args.ray, args.record).reflected

\* C12: Diffuse::scatter always returns a record that is not specular, with
\* the texture value at (u, v, point) as attenuation, and the direction of the
\* returned ray lies in the hemisphere about the shading normal
\* (dot(direction, shading_normal) >= 0), so that its scattering_pdf is 0 only
\* at grazing directions.
C12_DiffuseHemisphere ==
    (op = "scatter" /\ args.material.variant = "Diffuse") =>
        /\ ret.record.some
        /\ ~ret.record.value.specular
        /\ ret.record.value.attenuation =
              TextureValue(args.material.albedo, args.record.u, args.record.v, args.record.point)
        /\ LET scattered == ret.record.value.specular_ray
               cos == Dot(scattered.direction, args.record.shading_normal)
           IN  /\ FLe(Zero, cos)
               /\ DiffuseScatteringPdf(args.material, args.ray, args.record, scattered) = Zero
                     => cos = Zero

\* The part of C12 the code does satisfy: the shape of the record, whose ray
\* carries the normalized incoming direction and whose pdf is the cosine
\* density about the shading normal.
DiffuseRecordShape ==
    (op = "scatter" /\ args.material.variant = "Diffuse") =>
        /\ ret.record.some
        /\ ~ret.record.value.specular
        /\ ret.record.value.attenuation =
              TextureValue(args.material.albedo, args.record.u, args.record.v, args.record.point)
        /\ ret.record.value.specular_ray.direction = Normalize(args.ray.direction)
        /\ ret.record.value.pdf = CosinePDF(args.record.shading_normal)
        /\ ret.rng = args.rng

\* The fuzzed mirror direction of a Reflective hit:
\* reflect(normalize(ray.direction), shading_normal) + fuzz * random point.
FuzzedReflection(material, ray, record, rng) ==
    VAdd(Reflect(Normalize(ray.direction), record.shading_normal),
         VScale(material.fuzz, PickSpherePoint(rng).point))
IntoSurface(material, ray, record, rng) ==
    FLe(Dot(FuzzedReflection(material, ray, record, rng), record.shading_normal), Zero)

\* C13: Reflective::scatter returns None whenever dot(scattered, shading_normal)
\* <= 0, and otherwise a specular record whose attenuation is the albedo.
C13_ReflectiveDiscards ==
    (op = "scatter" /\ args.material.variant = "Reflective") =>
        IF IntoSurface(args.material, args.ray, args.record, args.rng)
        THEN ret.record = None
        ELSE /\ ret.record.some
             /\ ret.record.value.specular
             /\ ret.record.value.attenuation = args.material.albedo

\* C13 as amended: Reflective::scatter discards nothing.  For every sample,
\* those with dot(scattered, shading_normal) <= 0 included, it returns a
\* specular record with the albedo as attenuation and the fuzzed mirror
\* direction as the direction of its ray.
C13_ReflectiveNeverDiscards ==
    (op = "scatter" /\ args.material.variant = "Reflective") =>
        /\ ret.record.some
        /\ ret.record.value.specular
        /\ ret.record.value.attenuation = args.material.albedo
        /\ ret.record.value.specular_ray.direction =
              FuzzedReflection(args.material, args.ray, args.record, args.rng)
        /\ ret.record.value.specular_ray.origin = args.record.point

\* C13 witness: a fuzzed sample that goes into the surface and is returned.
C13_Witness ==
    /\ op = "scatter"
    /\ args.material.variant = "Reflective"
    /\ args.material.fuzz # Zero
    /\ DotInt(args.ray.direction, args.record.shading_normal) < 0
    /\ IntoSurface(args.material, args.ray, args.record, args.rng)
    /\ ret.record.some
    /\ ret.record.value.specular

====
